---- MODULE Spec2Model ----
(***************************************************************************)
(* A model of the productivity API (Express handlers over a PostgreSQL     *)
(* datastore): the credential gate, registration and login, the task       *)
(* routes, and the dashboard statistics fan-out.                           *)
(*                                                                         *)
(* Conventions.  A JavaScript undefined/null and an SQL NULL are the empty *)
(* set; a present value v is {v}.  title, description and search are       *)
(* sequences of one-character strings (they are pattern-matched); every    *)
(* other text is a TLA+ string.  Time is a count of instants; one hour is  *)
(* TicksPerHour instants.  Each row modification of the tasks table takes  *)
(* one instant, so no two modifications carry the same CURRENT_TIMESTAMP.  *)
(***************************************************************************)
EXTENDS Integers, Sequences, FiniteSets, TLC

VARIABLES users, tasks, nextUserId, nextTaskId, now, issued, stats, last

vars == <<users, tasks, nextUserId, nextTaskId, now, issued, stats, last>>

(* ------------------------------ bounds -------------------------------- *)

MaxTime == 2
TicksPerHour == 2
MaxUsers == 2
MaxTasks == 2
ScenarioTasks == 3
ScenarioMaxTime == 5

(* ----------------------------- constants ------------------------------ *)

ExpiresInHours == 1
SaltRounds == 10
JWT_SECRET == "JWT_SECRET"

ExpiresInTwoHours == 2 * ExpiresInHours * TicksPerHour

ExpiresIn == ExpiresInHours * TicksPerHour

(* ------------------------- optional values ---------------------------- *)

Null == {}
Some(x) == {x}
Get(o) == CHOOSE x \in o : TRUE

(* JavaScript truthiness of an optional string / character sequence. *)
TruthyStr(o) == o # Null /\ Get(o) # ""
TruthySeq(o) == o # Null /\ Get(o) # <<>>

(* ------------------------------ bcrypt -------------------------------- *)

bcryptHash(password, rounds, salt) ==
    [rounds |-> rounds, salt |-> salt, digest |-> <<rounds, salt, password>>]

bcryptCompare(password, hash) ==
    bcryptHash(password, hash.rounds, hash.salt) = hash

(* --------------------------- jsonwebtoken ----------------------------- *)

jwtSignature(payload, key) == [key |-> key, over |-> payload]

jwtSign(claims, key, expiresIn, t) ==
    LET payload == [user_id |-> claims.user_id, iat |-> t, exp |-> t + expiresIn]
    IN  <<"HS256", payload, jwtSignature(payload, key)>>

(* err: malformed (not three segments), bad signature, or expired. *)
jwtVerify(token, key, t) ==
    IF Len(token) # 3 THEN [err |-> TRUE, user |-> Null]
    ELSE IF token[3] # jwtSignature(token[2], key) THEN [err |-> TRUE, user |-> Null]
    ELSE IF t >= token[2].exp THEN [err |-> TRUE, user |-> Null]
    ELSE [err |-> FALSE, user |-> Some(token[2])]

(* --------------------------- credential gate -------------------------- *)

(* The authorization header is Null (not sent) or {parts}: the header      *)
(* string split on ' ' (parts = <<"">> is the empty header string).        *)
headerToken(authHeader) ==
    IF authHeader = Null THEN Null
    ELSE IF Get(authHeader) = <<"">> THEN Some(<<>>)
    ELSE IF Len(Get(authHeader)) < 2 THEN Null
    ELSE Some(Get(authHeader)[2])

(* The gate with the expiry left unchecked (jwt.decode after a signature    *)
(* check that ignores exp).                                                *)
authenticateTokenIgnoringExpiry(authHeader, t) ==
    LET token == headerToken(authHeader) IN
    IF ~TruthySeq(token) THEN [status |-> 401, user |-> Null]
    ELSE LET v == jwtVerify(Get(token), JWT_SECRET, 0) IN
         IF v.err THEN [status |-> 403, user |-> Null]
         ELSE [status |-> 0, user |-> v.user]

(* status 0: next() was called with req.user = user. *)
authenticateToken(authHeader, t) ==
    LET token == headerToken(authHeader) IN
    IF ~TruthySeq(token) THEN [status |-> 401, user |-> Null]
    ELSE LET v == jwtVerify(Get(token), JWT_SECRET, t) IN
         IF v.err THEN [status |-> 403, user |-> Null]
         ELSE [status |-> 0, user |-> v.user]

(* ----------------------- requests and responses ----------------------- *)

NoFields ==
    [title |-> Null, description |-> Null, priority |-> Null,
     status |-> Null, deadline |-> Null]

NoQuery == [status |-> Null, priority |-> Null, search |-> Null]

NoReq ==
    [id |-> Null, body |-> NoFields, query |-> NoQuery,
     email |-> Null, password |-> Null]

NoRes == [rows |-> {}, user |-> Null, token |-> Null, counts |-> Null]

NoLast ==
    [route |-> "NONE", at |-> 0, header |-> Null, status |-> 0,
     principal |-> Null, stmts |-> 0, dbOk |-> TRUE, dirty |-> FALSE,
     req |-> NoReq, res |-> NoRes]

(* What a request was and how it was answered: the route, the instant it   *)
(* arrived, the header it carried, the status sent, req.user.user_id if    *)
(* the gate set it, the number of datastore statements the handler issued, *)
(* whether the datastore served them, the request fields the handler read, *)
(* and the response body.                                                  *)
Response(route, header, status, principal, stmts, dbOk, req, res) ==
    [route |-> route, at |-> now, header |-> header, status |-> status,
     principal |-> principal, stmts |-> stmts, dbOk |-> dbOk, dirty |-> FALSE,
     req |-> req, res |-> res]

(* ------------------------------- state -------------------------------- *)

QueryNames == {"total", "completed", "pending", "highPriority", "overdue"}

(* The order in which the handler issues the five count queries. *)
QueryOrder == <<"total", "completed", "pending", "highPriority", "overdue">>

Pending == [st |-> "pending", count |-> <<>>, at |-> 0]

NoStats ==
    [active |-> FALSE, header |-> Null, principal |-> 0, at |-> 0,
     q |-> [n \in QueryNames |-> Pending], responded |-> 0, dirty |-> FALSE]

Init ==
    /\ users = {}
    /\ tasks = {}
    /\ nextUserId = 1
    /\ nextTaskId = 1
    /\ now = 0
    /\ issued = {}
    /\ stats = NoStats
    /\ last = NoLast

(* ------------------------------- clock -------------------------------- *)

Tick ==
    /\ now' = now + 1
    /\ UNCHANGED <<users, tasks, nextUserId, nextTaskId, issued, stats, last>>

(* ------------------------------ /register ----------------------------- *)

(* The datastore's unique-email constraint. *)
EmailTaken(email) == \E u \in users : Some(u.email) = email

Register(name, email, password, salt, dbOk) ==
    LET req == [NoReq EXCEPT !.email = email, !.password = password]
        hashThrows == password = Null
        inserted == dbOk /\ ~hashThrows /\ email # Null /\ ~EmailTaken(email)
        row == [user_id |-> nextUserId, name |-> name, email |-> Get(email),
                password |-> bcryptHash(Get(password), SaltRounds, salt)]
    IN
    /\ IF inserted
       THEN /\ users' = users \cup {row}
            /\ nextUserId' = nextUserId + 1
            /\ last' = Response("REGISTER", Null, 200, Null, 1, dbOk, req,
                                [NoRes EXCEPT !.user = Some(row)])
       ELSE /\ UNCHANGED <<users, nextUserId>>
            /\ last' = Response("REGISTER", Null, 500, Null,
                                IF hashThrows THEN 0 ELSE 1, dbOk, req, NoRes)
    /\ UNCHANGED <<tasks, nextTaskId, now, issued, stats>>

(* -------------------------------- /login ------------------------------ *)

Login(email, password, dbOk) ==
    LET req == [NoReq EXCEPT !.email = email, !.password = password]
        rows == {u \in users : Some(u.email) = email}
        user == CHOOSE u \in rows : TRUE
        token == jwtSign([user_id |-> user.user_id], JWT_SECRET, ExpiresIn, now)
        out(status, res) == Response("LOGIN", Null, status, Null, 1, dbOk, req, res)
    IN
    /\ IF ~dbOk THEN last' = out(500, NoRes) /\ UNCHANGED issued
       ELSE IF rows = {} THEN last' = out(400, NoRes) /\ UNCHANGED issued
       ELSE IF password = Null THEN last' = out(500, NoRes) /\ UNCHANGED issued
       ELSE IF ~bcryptCompare(Get(password), user.password)
            THEN last' = out(401, NoRes) /\ UNCHANGED issued
       ELSE /\ issued' = issued \cup {token}
            /\ last' = out(200, [NoRes EXCEPT !.token = Some(token)])
    /\ UNCHANGED <<users, tasks, nextUserId, nextTaskId, now, stats>>

(* ------------------------- the datastore: tasks ----------------------- *)

(* History bit of the in-flight statistics request: a row of its principal *)
(* is modified after its first and before its last count query.            *)
MarkDirty(owner) ==
    IF /\ stats.active /\ stats.responded = 0 /\ stats.principal = owner
       /\ \E n \in QueryNames : stats.q[n].st = "pending"
       /\ \E n \in QueryNames : stats.q[n].st # "pending"
    THEN [stats EXCEPT !.dirty = TRUE]
    ELSE stats

Rejected(route, header, auth) ==
    /\ last' = Response(route, header, auth.status, Null, 0, TRUE, NoReq, NoRes)
    /\ UNCHANGED <<users, tasks, nextUserId, nextTaskId, now, issued, stats>>

DefaultStatus == "Pending"

(* INSERT INTO tasks (user_id, title, description, priority, deadline)     *)
InsertTask(user_id, title, description, priority, deadline) ==
    [task_id |-> nextTaskId, user_id |-> user_id, title |-> Get(title),
     description |-> description, priority |-> priority,
     status |-> DefaultStatus, deadline |-> deadline,
     created_at |-> now, updated_at |-> now]

(* ----------------------------- POST /tasks ---------------------------- *)

CreateTask(header, body, dbOk) ==
    LET auth == authenticateToken(header, now)
        req == [NoReq EXCEPT !.body = body]
        user_id == Get(auth.user).user_id
        row == InsertTask(user_id, body.title, body.description,
                          body.priority, body.deadline)
    IN
    IF auth.status # 0 THEN Rejected("POST", header, auth)
    ELSE IF ~dbOk \/ body.title = Null
    THEN /\ last' = Response("POST", header, 500, Some(user_id), 1, dbOk, req, NoRes)
         /\ UNCHANGED <<users, tasks, nextUserId, nextTaskId, now, issued, stats>>
    ELSE /\ tasks' = tasks \cup {row}
         /\ nextTaskId' = nextTaskId + 1
         /\ now' = now + 1
         /\ stats' = MarkDirty(user_id)
         /\ last' = Response("POST", header, 200, Some(user_id), 1, dbOk, req,
                             [NoRes EXCEPT !.rows = {row}])
         /\ UNCHANGED <<users, nextUserId, issued>>

(* ---------------------------- PUT /tasks/:id -------------------------- *)

(* WHERE task_id = id, whoever owns the row. *)
WhereTaskId(id, user_id) == {r \in tasks : r.task_id = id}

(* WHERE task_id = id AND user_id = user_id *)
WhereTaskIdAndUserId(id, user_id) ==
    {r \in tasks : r.task_id = id /\ r.user_id = user_id}

(* The stored value kept whatever the request supplies. *)
KeepStored(a, b) == b

COALESCE(a, b) == IF a # Null THEN a ELSE b

UpdateRow(r, body) ==
    [r EXCEPT !.title = Get(COALESCE(body.title, Some(r.title))),
              !.description = COALESCE(body.description, r.description),
              !.priority = COALESCE(body.priority, r.priority),
              !.status = Get(COALESCE(body.status, Some(r.status))),
              !.deadline = COALESCE(body.deadline, r.deadline),
              !.updated_at = now]

UpdateTask(header, id, body, dbOk) ==
    LET auth == authenticateToken(header, now)
        req == [NoReq EXCEPT !.id = Some(id), !.body = body]
        user_id == Get(auth.user).user_id
        matched == WhereTaskIdAndUserId(id, user_id)
        rows == {UpdateRow(r, body) : r \in matched}
        out(status, res) == Response("PUT", header, status, Some(user_id), 1, dbOk, req, res)
    IN
    IF auth.status # 0 THEN Rejected("PUT", header, auth)
    ELSE IF ~dbOk \/ rows = {}
    THEN /\ last' = out(IF dbOk THEN 404 ELSE 500, NoRes)
         /\ UNCHANGED <<users, tasks, nextUserId, nextTaskId, now, issued, stats>>
    ELSE /\ tasks' = (tasks \ matched) \cup rows
         /\ now' = now + 1
         /\ stats' = MarkDirty(user_id)
         /\ last' = out(200, [NoRes EXCEPT !.rows = rows])
         /\ UNCHANGED <<users, nextUserId, nextTaskId, issued>>

(* --------------------------- DELETE /tasks/:id ------------------------ *)

DeleteTask(header, id, dbOk) ==
    LET auth == authenticateToken(header, now)
        req == [NoReq EXCEPT !.id = Some(id)]
        user_id == Get(auth.user).user_id
        rows == WhereTaskIdAndUserId(id, user_id)
        out(status) == Response("DELETE", header, status, Some(user_id), 1, dbOk, req, NoRes)
    IN
    IF auth.status # 0 THEN Rejected("DELETE", header, auth)
    ELSE IF ~dbOk \/ rows = {}
    THEN /\ last' = out(IF dbOk THEN 404 ELSE 500)
         /\ UNCHANGED <<users, tasks, nextUserId, nextTaskId, now, issued, stats>>
    ELSE /\ tasks' = tasks \ rows
         /\ now' = now + 1
         /\ stats' = MarkDirty(user_id)
         /\ last' = out(200)
         /\ UNCHANGED <<users, nextUserId, nextTaskId, issued>>

(* ----------------------------- GET /tasks ----------------------------- *)

LowerChar(c) ==
    CASE c = "R" -> "r"
      [] c = "E" -> "e"
      [] c = "M" -> "m"
      [] OTHER -> c

Lower(s) == [i \in 1..Len(s) |-> LowerChar(s[i])]

(* SQL LIKE: % matches any run of characters, _ any one character.  The    *)
(* input alphabet holds no backslash (the escape character).               *)
RECURSIVE LikeMatch(_, _)
LikeMatch(s, p) ==
    IF p = <<>> THEN s = <<>>
    ELSE IF Head(p) = "%"
         THEN LikeMatch(s, Tail(p)) \/ (s # <<>> /\ LikeMatch(Tail(s), p))
    ELSE IF Head(p) = "_"
         THEN s # <<>> /\ LikeMatch(Tail(s), Tail(p))
    ELSE s # <<>> /\ Head(s) = Head(p) /\ LikeMatch(Tail(s), Tail(p))

(* text ILIKE pattern; NULL ILIKE pattern is not true. *)
ILIKE(text, pattern) ==
    text # Null /\ LikeMatch(Lower(Get(text)), Lower(pattern))

(* One predicate of the WHERE clause, reading its value from the bound     *)
(* parameter list at position p ($p).                                      *)
Holds(clause, params, r) ==
    CASE clause.col = "user_id"  -> r.user_id = params[clause.p]
      [] clause.col = "status"   -> r.status = params[clause.p]
      [] clause.col = "priority" -> r.priority = Some(params[clause.p])
      [] clause.col = "search"   -> \/ ILIKE(Some(r.title), params[clause.p])
                                    \/ ILIKE(r.description, params[clause.p])

Select(queryText, queryParams) ==
    {r \in tasks : \A i \in 1..Len(queryText) : Holds(queryText[i], queryParams, r)}

(* SELECT * FROM tasks, with no predicate on the owner. *)
BaseQueryAllUsers(user_id) ==
    [text |-> <<>>, params |-> <<user_id>>, paramCount |-> 1]

(* SELECT * FROM tasks WHERE user_id = $1 *)
BaseQuery(user_id) ==
    [text |-> <<[col |-> "user_id", p |-> 1]>>,
     params |-> <<user_id>>, paramCount |-> 1]

(* The query text and parameter list the handler builds. *)
BuildQuery(user_id, query) ==
    LET q0 == BaseQuery(user_id)
        q1 == IF TruthyStr(query.status)
              THEN [text |-> Append(q0.text, [col |-> "status", p |-> q0.paramCount + 1]),
                    params |-> Append(q0.params, Get(query.status)),
                    paramCount |-> q0.paramCount + 1]
              ELSE q0
        q2 == IF TruthyStr(query.priority)
              THEN [text |-> Append(q1.text, [col |-> "priority", p |-> q1.paramCount + 1]),
                    params |-> Append(q1.params, Get(query.priority)),
                    paramCount |-> q1.paramCount + 1]
              ELSE q1
        q3 == IF TruthySeq(query.search)
              THEN [text |-> Append(q2.text, [col |-> "search", p |-> q2.paramCount + 1]),
                    params |-> Append(q2.params, <<"%">> \o Get(query.search) \o <<"%">>),
                    paramCount |-> q2.paramCount + 1]
              ELSE q2
    IN  q3

GetTasks(header, query, dbOk) ==
    LET auth == authenticateToken(header, now)
        req == [NoReq EXCEPT !.query = query]
        user_id == Get(auth.user).user_id
        built == BuildQuery(user_id, query)
        rows == Select(built.text, built.params)
    IN
    IF auth.status # 0 THEN Rejected("GET", header, auth)
    ELSE /\ last' = Response("GET", header, IF dbOk THEN 200 ELSE 500, Some(user_id),
                             1, dbOk, req,
                             IF dbOk THEN [NoRes EXCEPT !.rows = rows] ELSE NoRes)
         /\ UNCHANGED <<users, tasks, nextUserId, nextTaskId, now, issued, stats>>

(* -------------------------- GET /dashboard/stats ---------------------- *)

(* A COUNT is a bigint, which the driver returns as decimal text. *)
Digits == <<"0", "1", "2", "3", "4", "5", "6", "7", "8", "9">>

RECURSIVE PgCountText(_)
PgCountText(n) ==
    IF n < 10 THEN <<Digits[n + 1]>>
    ELSE Append(PgCountText(n \div 10), Digits[(n % 10) + 1])

DigitValue(c) == (CHOOSE i \in 1..10 : Digits[i] = c) - 1

RECURSIVE parseInt(_)
parseInt(s) ==
    IF Len(s) = 1 THEN DigitValue(s[1])
    ELSE 10 * parseInt(SubSeq(s, 1, Len(s) - 1)) + DigitValue(s[Len(s)])

(* status = 'Completed', with the comparison dropped. *)
AnyStatus(r) == TRUE

(* status = 'Completed' *)
IsCompleted(r) == r.status = "Completed"

(* deadline <= NOW() in place of deadline < NOW(). *)
OverdueInclusive(r, t) ==
    r.status # "Completed" /\ r.deadline # Null /\ Get(r.deadline) <= t

(* status != 'Completed' AND deadline < NOW(); a NULL deadline compares to *)
(* nothing.                                                                *)
IsOverdue(r, t) ==
    r.status # "Completed" /\ r.deadline # Null /\ Get(r.deadline) < t

(* The rows each of the five count queries counts, at instant t. *)
CountRows(name, userId, t) ==
    CASE name = "total" ->
           {r \in tasks : r.user_id = userId}
      [] name = "completed" ->
           {r \in tasks : r.user_id = userId /\ IsCompleted(r)}
      [] name = "pending" ->
           {r \in tasks : r.user_id = userId /\ r.status = "Pending"}
      [] name = "highPriority" ->
           {r \in tasks : r.user_id = userId /\ r.priority = Some("High")}
      [] name = "overdue" ->
           {r \in tasks : r.user_id = userId /\ IsOverdue(r, t)}

StatsIdle == ~stats.active

(* The gate, then the five queries are issued at once. *)
StatsBegin(header) ==
    LET auth == authenticateToken(header, now) IN
    /\ StatsIdle
    /\ IF auth.status # 0 THEN Rejected("STATS", header, auth)
       ELSE /\ stats' = [NoStats EXCEPT !.active = TRUE, !.header = header,
                                       !.principal = Get(auth.user).user_id,
                                       !.at = now]
            /\ UNCHANGED <<users, tasks, nextUserId, nextTaskId, now, issued, last>>

StatsResponse(status, dbOk, res) ==
    [route |-> "STATS", at |-> stats.at, header |-> stats.header, status |-> status,
     principal |-> Some(stats.principal), stmts |-> Cardinality(QueryNames),
     dbOk |-> dbOk, dirty |-> stats.dirty, req |-> NoReq, res |-> res]

(* The body with completedTasks and pendingTasks read from each other's   *)
(* result.                                                                 *)
StatsBodySwapped(q) ==
    [totalTasks |-> parseInt(q["total"].count),
     completedTasks |-> parseInt(q["pending"].count),
     pendingTasks |-> parseInt(q["completed"].count),
     highPriorityTasks |-> parseInt(q["highPriority"].count),
     overdueTasks |-> parseInt(q["overdue"].count)]

StatsBody(q) ==
    [totalTasks |-> parseInt(q["total"].count),
     completedTasks |-> parseInt(q["completed"].count),
     pendingTasks |-> parseInt(q["pending"].count),
     highPriorityTasks |-> parseInt(q["highPriority"].count),
     overdueTasks |-> parseInt(q["overdue"].count)]

(* Once the response is sent nothing reads the results: only the fact that *)
(* each query is still running or has settled remains.                     *)
Discard(q) == [n \in QueryNames |-> [Pending EXCEPT !.st = q[n].st]]

Answered(q, status) ==
    [NoStats EXCEPT !.active = \E n \in QueryNames : q[n].st = "pending",
                    !.principal = stats.principal,
                    !.q = Discard(q), !.responded = status]

(* Promise.allSettled in place of Promise.all: the response waits for all *)
(* five and is a 200 whatever their outcome, a failed count reading as 0.  *)
SettleAll(q, dbOk) ==
    LET read == [n \in QueryNames |->
                   IF q[n].st = "failed" THEN [q[n] EXCEPT !.count = <<"0">>] ELSE q[n]]
    IN
    IF stats.responded # 0
    THEN /\ stats' = Answered(q, stats.responded)
         /\ UNCHANGED last
    ELSE IF \A n \in QueryNames : q[n].st # "pending"
    THEN /\ stats' = Answered(q, 200)
         /\ last' = StatsResponse(200, TRUE, [NoRes EXCEPT !.counts = Some(StatsBody(read))])
    ELSE /\ stats' = [stats EXCEPT !.q = q]
         /\ UNCHANGED last

(* Promise.all: the first rejection rejects the whole (the catch sends 500);*)
(* it resolves when the last of the five resolves (the 200 is sent).  The   *)
(* queries still pending after a rejection run on; nothing reads them.      *)
Settle(q, dbOk) ==
    IF stats.responded # 0
    THEN /\ stats' = Answered(q, stats.responded)
         /\ UNCHANGED last
    ELSE IF ~dbOk
    THEN /\ stats' = Answered(q, 500)
         /\ last' = StatsResponse(500, FALSE, NoRes)
    ELSE IF \A n \in QueryNames : q[n].st = "ok"
    THEN /\ stats' = Answered(q, 200)
         /\ last' = StatsResponse(200, TRUE, [NoRes EXCEPT !.counts = Some(StatsBody(q))])
    ELSE /\ stats' = [stats EXCEPT !.q = q]
         /\ UNCHANGED last

(* The datastore runs one of the issued count queries. *)
StatsQuery(name, dbOk) ==
    LET result == IF dbOk
                  THEN [st |-> "ok",
                        count |-> PgCountText(Cardinality(CountRows(name, stats.principal, now))),
                        at |-> IF name = "overdue" THEN now ELSE 0]
                  ELSE [st |-> "failed", count |-> <<>>, at |-> 0]
    IN
    /\ stats.active
    /\ stats.q[name].st = "pending"
    /\ Settle([stats.q EXCEPT ![name] = result], dbOk)
    /\ UNCHANGED <<users, tasks, nextUserId, nextTaskId, now, issued>>

(* ------------------------- what clients can send ---------------------- *)

(* A token the server signed, with its subject or its expiry altered. *)
Tampered(token) ==
    {<<token[1], [token[2] EXCEPT !.user_id = (token[2].user_id % MaxUsers) + 1], token[3]>>,
     <<token[1], [token[2] EXCEPT !.exp = token[2].exp + ExpiresIn], token[3]>>}

(* A token signed with a key that is not the server's. *)
Forged == {jwtSign([user_id |-> 1], "guess", ExpiresIn, now)}

Bearer(tokens) == {Some(<<"Bearer", t>>) : t \in tokens}

NoTokenHeaders == {Null, Some(<<"">>), Some(<<"Bearer">>), Some(<<"Bearer", <<>>>>)}

BadTokenHeaders ==
    Bearer({<<"garbage">>} \cup Forged \cup UNION {Tampered(t) : t \in issued})

Headers == NoTokenHeaders \cup BadTokenHeaders \cup Bearer(issued)

Booleans == {TRUE, FALSE}

Passes(header) == authenticateToken(header, now).status = 0

(* A request that passes the gate and may write is taken only while the    *)
(* instant it takes is within the bound.                                   *)
MayWrite(header, maxTime) == Passes(header) => now < maxTime

MayInsert(header, maxTime, maxTasks) ==
    Passes(header) => (now < maxTime /\ nextTaskId <= maxTasks)

(* Clients log in only while no token issued earlier is still valid. *)
NoValidToken == \A t \in issued : now >= t[2].exp

(* A client logs in again only once its earlier token has expired. *)
MayLogin(email) ==
    \A t \in issued, u \in users :
        (Some(u.email) = email /\ u.user_id = t[2].user_id) => now >= t[2].exp

(* The datastore serves the count queries in the order they were issued. *)
InOrder(name) ==
    \A i, j \in 1..Len(QueryOrder) :
        (QueryOrder[j] = name /\ i < j) => stats.q[QueryOrder[i]].st # "pending"

Titled == [NoFields EXCEPT !.title = Some(<<"t">>)]

(* ------------- Spec: every route, every kind of header ---------------- *)

Emails == {Some("a@x"), Some("b@x")}
Passwords == {Some("pw1"), Some("pw2"), Null}

Next ==
    \/ now < MaxTime /\ Tick
    \/ \E email \in Emails :
           nextUserId <= MaxUsers /\ Register("n", email, Some("pw1"), "salt", TRUE)
    \/ \E email \in Emails, password \in Passwords, dbOk \in Booleans :
           NoValidToken /\ Login(email, password, dbOk)
    \/ \E header \in Headers :
           StatsIdle /\ MayInsert(header, MaxTime, 1) /\ CreateTask(header, Titled, TRUE)
    \/ \E header \in Headers : StatsIdle /\ GetTasks(header, NoQuery, TRUE)
    \/ \E header \in Headers :
           StatsIdle /\ MayWrite(header, MaxTime) /\ UpdateTask(header, 1, NoFields, TRUE)
    \/ \E header \in Headers :
           StatsIdle /\ MayWrite(header, MaxTime) /\ DeleteTask(header, 1, TRUE)
    \/ \E header \in Headers : StatsBegin(header)
    \/ \E name \in QueryNames : InOrder(name) /\ StatsQuery(name, TRUE)

Spec == Init /\ [][Next]_vars

(* ------------- SpecOwner: two users and their tasks ------------------- *)

TaskIds == 1..MaxTasks

OwnerUpdates ==
    {NoFields, [NoFields EXCEPT !.title = Some(<<"u">>)],
     [NoFields EXCEPT !.status = Some("Completed")]}

NextOwner ==
    \/ \E email \in Emails :
           nextUserId <= MaxUsers /\ Register("n", email, Some("pw1"), "salt", TRUE)
    \/ \E email \in Emails : MayLogin(email) /\ Login(email, Some("pw1"), TRUE)
    \/ \E header \in Bearer(issued) :
           MayInsert(header, MaxTime, MaxTasks) /\ CreateTask(header, Titled, TRUE)
    \/ \E header \in Bearer(issued) : GetTasks(header, NoQuery, TRUE)
    \/ \E header \in Bearer(issued), id \in TaskIds, body \in OwnerUpdates,
          dbOk \in Booleans :
           MayWrite(header, MaxTime) /\ UpdateTask(header, id, body, dbOk)
    \/ \E header \in Bearer(issued), id \in TaskIds, dbOk \in Booleans :
           MayWrite(header, MaxTime) /\ DeleteTask(header, id, dbOk)

SpecOwner == Init /\ [][NextOwner]_vars

(* ------------- SpecUpdate: one task, every shape of PUT body ---------- *)

FullTask ==
    [title |-> Some(<<"t">>), description |-> Some(<<"d">>), priority |-> Some("Low"),
     status |-> Null, deadline |-> Some(1)]

(* Each field absent or supplied, in every combination ... *)
SuppliedOrAbsent ==
    [title : {Null, Some(<<"u">>)}, description : {Null, Some(<<"e">>)},
     priority : {Null, Some("High")}, status : {Null, Some("Completed")},
     deadline : {Null, Some(0)}]

(* ... and the body whose text fields are all the empty string. *)
EmptyStrings ==
    [title |-> Some(<<>>), description |-> Some(<<>>), priority |-> Some(""),
     status |-> Some(""), deadline |-> Null]

UpdateBodies == SuppliedOrAbsent \cup {EmptyStrings}

NextUpdate ==
    \/ nextUserId <= 1 /\ Register("n", Some("a@x"), Some("pw1"), "salt", TRUE)
    \/ MayLogin(Some("a@x")) /\ Login(Some("a@x"), Some("pw1"), TRUE)
    \/ \E header \in Bearer(issued), body \in {FullTask, Titled} :
           MayInsert(header, MaxTime, 1) /\ CreateTask(header, body, TRUE)
    \/ \E header \in Bearer(issued), body \in UpdateBodies :
           MayWrite(header, MaxTime) /\ UpdateTask(header, 1, body, TRUE)

SpecUpdate == Init /\ [][NextUpdate]_vars

(* ------------- SpecStats: the statistics fan-out among writes --------- *)

A == Some("a@x")

StatsCreates == {Titled}

StatsUpdates ==
    {[NoFields EXCEPT !.status = Some("Completed")],
     [NoFields EXCEPT !.status = Some("In Progress")]}

NextStats ==
    \/ nextUserId <= 1 /\ Register("n", A, Some("pw1"), "salt", TRUE)
    \/ MayLogin(A) /\ Login(A, Some("pw1"), TRUE)
    \/ \E header \in Bearer(issued), body \in StatsCreates :
           MayInsert(header, MaxTime, MaxTasks) /\ CreateTask(header, body, TRUE)
    \/ \E header \in Bearer(issued), id \in TaskIds, body \in StatsUpdates :
           MayWrite(header, MaxTime) /\ UpdateTask(header, id, body, TRUE)
    \/ \E header \in Bearer(issued), id \in TaskIds :
           MayWrite(header, MaxTime) /\ DeleteTask(header, id, TRUE)
    \/ \E header \in Bearer(issued) : StatsBegin(header)
    \/ \E name \in QueryNames : StatsQuery(name, TRUE)

SpecStats == Init /\ [][NextStats]_vars

(* ------------- SpecCounts: statistics with no write in between -------- *)

(* The user a genuine token was issued to. *)
Sender(header) == Get(headerToken(header))[2].user_id

(* The first user creates either task and updates; the second only adds   *)
(* the High task with the past deadline.                                   *)
CountsCreates ==
    {[Titled EXCEPT !.priority = Some("High"), !.deadline = Some(0)],
     [Titled EXCEPT !.priority = Some("Low"), !.deadline = Some(2)]}

NextCounts ==
    \/ now < MaxTime /\ Tick
    \/ \E email \in Emails :
           nextUserId <= MaxUsers /\ Register("n", email, Some("pw1"), "salt", TRUE)
    \/ \E email \in Emails : MayLogin(email) /\ Login(email, Some("pw1"), TRUE)
    \/ \E header \in Bearer(issued), body \in CountsCreates :
           /\ StatsIdle /\ MayInsert(header, MaxTime, MaxTasks)
           /\ Sender(header) = 1 \/ body.priority = Some("High")
           /\ CreateTask(header, body, TRUE)
    \/ \E header \in Bearer(issued), id \in TaskIds, body \in StatsUpdates :
           /\ StatsIdle /\ MayWrite(header, MaxTime) /\ Sender(header) = 1
           /\ UpdateTask(header, id, body, TRUE)
    \/ \E header \in Bearer(issued) : StatsBegin(header)
    \/ \E name \in QueryNames : InOrder(name) /\ StatsQuery(name, TRUE)

SpecCounts == Init /\ [][NextCounts]_vars

(* ------------- SpecFail: count queries that fail ---------------------- *)

NextFail ==
    \/ nextUserId <= 1 /\ Register("n", A, Some("pw1"), "salt", TRUE)
    \/ MayLogin(A) /\ Login(A, Some("pw1"), TRUE)
    \/ \E header \in Bearer(issued) :
           StatsIdle /\ MayInsert(header, MaxTime, 1) /\ CreateTask(header, Titled, TRUE)
    \/ \E header \in Bearer(issued) : StatsBegin(header)
    \/ \E name \in QueryNames, dbOk \in Booleans : StatsQuery(name, dbOk)

SpecFail == Init /\ [][NextFail]_vars

(* ------------- SpecScenario: one user, three tasks, then statistics --- *)

(* The i-th task the scenario creates: the first High with a deadline in   *)
(* the past, the second asking for status Pending, the third for status    *)
(* Completed.                                                              *)
ScenarioBody(i) ==
    CASE i = 1 -> [Titled EXCEPT !.priority = Some("High"), !.deadline = Some(0)]
      [] i = 2 -> [Titled EXCEPT !.status = Some("Pending")]
      [] i = 3 -> [Titled EXCEPT !.status = Some("Completed")]
      [] OTHER -> Titled

NextScenario ==
    \/ nextUserId <= 1 /\ Register("n", A, Some("pw1"), "salt", TRUE)
    \/ MayLogin(A) /\ Login(A, Some("pw1"), TRUE)
    \/ \E header \in Bearer(issued) :
           /\ StatsIdle /\ MayInsert(header, ScenarioMaxTime, ScenarioTasks)
           /\ CreateTask(header, ScenarioBody(nextTaskId), TRUE)
    \/ \E header \in Bearer(issued), id \in 1..ScenarioTasks :
           /\ StatsIdle /\ MayWrite(header, ScenarioMaxTime)
           /\ UpdateTask(header, id, [NoFields EXCEPT !.status = Some("Completed")], TRUE)
    \/ \E header \in Bearer(issued) : StatsBegin(header)
    \/ \E name \in QueryNames : InOrder(name) /\ StatsQuery(name, TRUE)

SpecScenario == Init /\ [][NextScenario]_vars

(* ------------- SpecFilter: one user's tasks, every filter ------------- *)

FilterCreates ==
    {[Titled EXCEPT !.title = Some(<<"R", "e">>), !.priority = Some("High")],
     [Titled EXCEPT !.title = Some(<<"m">>), !.description = Some(<<"r", "e", "m">>),
                    !.priority = Some("Low")],
     [Titled EXCEPT !.title = Some(<<"m">>), !.priority = Some("High")]}

FilterQueries ==
    [status : {Null, Some(""), Some("Pending")},
     priority : {Null, Some("High")},
     search : {Null, Some(<<>>), Some(<<"r", "E">>), Some(<<"_">>), Some(<<"e", "%">>)}]

NextFilter ==
    \/ nextUserId <= 1 /\ Register("n", A, Some("pw1"), "salt", TRUE)
    \/ MayLogin(A) /\ Login(A, Some("pw1"), TRUE)
    \/ \E header \in Bearer(issued), body \in FilterCreates :
           MayInsert(header, MaxTime, MaxTasks) /\ CreateTask(header, body, TRUE)
    \/ \E header \in Bearer(issued), id \in TaskIds :
           /\ MayWrite(header, MaxTime)
           /\ UpdateTask(header, id, [NoFields EXCEPT !.status = Some("Completed")], TRUE)
    \/ \E header \in Bearer(issued), query \in FilterQueries :
           GetTasks(header, query, TRUE)

SpecFilter == Init /\ [][NextFilter]_vars

(* ============================ properties ============================== *)

ProtectedRoutes == {"POST", "GET", "PUT", "DELETE", "STATS"}

(* A token the server issued at a login, presented before its expiry. *)
Genuine(token, t) == token \in issued /\ t < token[2].exp

GateOutcome(header, at, status, principal, stmts) ==
    LET token == headerToken(header) IN
    IF ~TruthySeq(token)
    THEN status = 401 /\ principal = Null /\ stmts = 0
    ELSE IF ~Genuine(Get(token), at)
    THEN status = 403 /\ principal = Null /\ stmts = 0
    ELSE /\ status \notin {401, 403}
         /\ principal = Some(Get(token)[2].user_id)
         /\ stmts >= 1

GateHolds ==
    /\ last.route \in ProtectedRoutes =>
           GateOutcome(last.header, last.at, last.status, last.principal, last.stmts)
    /\ (stats.active /\ stats.responded = 0) =>
           GateOutcome(stats.header, stats.at, 0, Some(stats.principal), Cardinality(QueryNames))

RejectionTouchesNothing ==
    (last' # last /\ last'.route \in ProtectedRoutes /\ last'.status \in {401, 403})
        => UNCHANGED <<users, tasks, nextUserId, nextTaskId, now, issued, stats>>

(* C1: on every protected route a request without a token is answered 401 *)
(* and one with a malformed, expired or wrongly signed token 403, in both  *)
(* cases with no handler logic run, no datastore statement issued and no   *)
(* state changed; a request with a valid token runs the handler with the   *)
(* principal equal to the user identifier embedded in the token.           *)
C1_CredentialGate == [](GateHolds) /\ [][RejectionTouchesNothing]_vars

(* An expired token of the server's own is turned away with 403. *)
C1_Witness ==
    /\ last.route \in ProtectedRoutes
    /\ last.status = 403
    /\ TruthySeq(headerToken(last.header))
    /\ Get(headerToken(last.header)) \in issued

(* What POST /login answers, given the users table it queried. *)
LoginOutcome(r) ==
    LET rows == {u \in users : Some(u.email) = r.req.email}
        matches == {u \in rows : r.req.password # Null /\
                                 bcryptCompare(Get(r.req.password), u.password)}
    IN
    /\ r.status \in {200, 400, 401, 500}
    /\ r.status = 500 <=> (~r.dbOk \/ (rows # {} /\ r.req.password = Null))
    /\ r.status = 400 <=> (r.dbOk /\ rows = {})
    /\ r.status = 401 <=> (r.dbOk /\ rows # {} /\ r.req.password # Null /\ matches = {})
    /\ r.status = 200 =>
         /\ r.res.token # Null
         /\ \E u \in matches :
               Get(r.res.token)[2] = [user_id |-> u.user_id, iat |-> r.at,
                                      exp |-> r.at + TicksPerHour]
    /\ r.status # 200 => r.res.token = Null

LoginStep ==
    /\ (last' # last /\ last'.route = "LOGIN") => LoginOutcome(last')
    /\ issued' # issued =>
         /\ last'.route = "LOGIN" /\ last'.status = 200
         /\ issued' = issued \cup last'.res.token

(* A login for user u succeeded at most an hour before instant t. *)
LoggedInWithinTheHour(u, t) ==
    \E token \in issued :
        /\ token[2].user_id = u
        /\ token[2].iat <= t
        /\ t < token[2].iat + TicksPerHour

PrincipalsLoggedIn ==
    /\ last.principal # Null => LoggedInWithinTheHour(Get(last.principal), last.at)
    /\ (stats.active /\ stats.responded = 0) =>
           LoggedInWithinTheHour(stats.principal, stats.at)

(* C10: POST /login answers 400 when no user has the email, 401 when the  *)
(* password does not match the stored hash, and otherwise (no error being  *)
(* thrown) 200 with a token asserting that user's identifier and expiring  *)
(* one hour after issue; tokens come from successful logins only, and a    *)
(* handler runs with principal U only if such a login for U succeeded      *)
(* within the preceding hour.                                              *)
C10_LoginAndPrincipal == [](PrincipalsLoggedIn) /\ [][LoginStep]_vars

(* A handler ran with a principal in the last instant of its token's hour. *)
C10_Witness ==
    /\ last.route \in ProtectedRoutes
    /\ last.principal # Null
    /\ last.at = Get(headerToken(last.header))[2].iat + TicksPerHour - 1
    /\ \E u \in users : u.user_id = Get(last.principal)

(* A PUT or DELETE that passed the gate and names a task of another user. *)
CrossUserStep ==
    /\ last' # last
    /\ last'.route \in {"PUT", "DELETE"}
    /\ last'.principal # Null
    /\ \E T \in tasks : T.task_id = Get(last'.req.id) /\ T.user_id # Get(last'.principal)

(* C2: a PUT or DELETE by an authenticated user on a task owned by        *)
(* another user is answered 404 (500 if the datastore fails the statement; *)
(* never 403 or 200), and the task, like every other row, stays as it was, *)
(* its update timestamp included.                                          *)
C2_CrossUserNotFound ==
    [][CrossUserStep =>
          /\ last'.status = (IF last'.dbOk THEN 404 ELSE 500)
          /\ tasks' = tasks]_vars

C2_Witness ==
    /\ last.route = "DELETE"
    /\ last.status = 404
    /\ \E T \in tasks : T.task_id = Get(last.req.id) /\ T.user_id # Get(last.principal)

ListsOnlyOwn ==
    (last.route = "GET" /\ last.status = 200) =>
        \A r \in last.res.rows : Some(r.user_id) = last.principal

OwnerStep ==
    /\ \A r \in tasks, r2 \in tasks' : r.task_id = r2.task_id => r.user_id = r2.user_id
    /\ \A r2 \in tasks' : (\A r \in tasks : r.task_id # r2.task_id) =>
           /\ last'.route = "POST"
           /\ r2.task_id >= nextTaskId
    /\ tasks' # tasks =>
           /\ last'.principal # Null
           /\ \A r \in (tasks \ tasks') \cup (tasks' \ tasks) :
                  Some(r.user_id) = last'.principal

(* C6: GET /tasks returns only rows owned by its principal; a task's owner *)
(* is its creator's principal and never changes; a request changes, adds   *)
(* or removes only rows owned by the principal it runs with.               *)
C6_OwnerScoped == [](ListsOnlyOwn) /\ [][OwnerStep]_vars

(* A listing that left out a row of the other user. *)
C6_Witness ==
    /\ last.route = "GET"
    /\ last.status = 200
    /\ last.res.rows # {}
    /\ \E r \in tasks : Some(r.user_id) # last.principal

(* A PUT by the owner that updated the row: before is the stored row,     *)
(* after the row stored in its place.                                      *)
OwnerUpdate(before, after) ==
    /\ last' # last
    /\ last'.route = "PUT" /\ last'.status = 200
    /\ before \in tasks /\ after \in tasks'
    /\ before.task_id = Get(last'.req.id)
    /\ after.task_id = before.task_id

TextFields == {"title", "description", "priority", "status"}

(* A supplied field as the column stores it (title and status are NOT NULL *)
(* columns, held bare; the others are held as optional values).            *)
Stored(field, value) == IF field \in {"title", "status"} THEN Get(value) ELSE value

Empty(field, value) ==
    \/ value = Null
    \/ field \in {"title", "description"} /\ value = Some(<<>>)
    \/ field \in {"priority", "status"} /\ value = Some("")

(* C4 as stated: a PUT whose fields are all empty or absent leaves every   *)
(* stored field as it was.                                                 *)
C4_EmptyOrAbsentKeeps ==
    [][\A before \in tasks, after \in tasks' :
          (OwnerUpdate(before, after) /\
           \A f \in TextFields \cup {"deadline"} : Empty(f, last'.req.body[f]))
          => \A f \in TextFields \cup {"deadline"} : after[f] = before[f]]_vars

(* C4, amended: each field absent from the PUT (undefined or null) keeps  *)
(* its stored value, each supplied field, the empty string included, is    *)
(* overwritten with the supplied value, and updated_at is set to the       *)
(* instant of the update, later than the stamp it replaces.                *)
C4_PartialUpdate ==
    [][\A before \in tasks, after \in tasks' :
          OwnerUpdate(before, after) =>
            /\ \A f \in TextFields \cup {"deadline"} :
                 after[f] = IF last'.req.body[f] = Null THEN before[f]
                            ELSE Stored(f, last'.req.body[f])
            /\ after.user_id = before.user_id
            /\ after.created_at = before.created_at
            /\ after.updated_at = now
            /\ after.updated_at > before.updated_at]_vars

(* A PUT with every field absent went through on a task that holds a       *)
(* value in every column.                                                  *)
C4_Witness ==
    /\ last.route = "PUT" /\ last.status = 200
    /\ last.req.body = NoFields
    /\ \E r \in last.res.rows :
          r.description # Null /\ r.priority # Null /\ r.deadline # Null

(* ------------------------- statistics: the sum ------------------------ *)

Counts == Get(last.res.counts)

StatsAnswered == last.route = "STATS" /\ last.status = 200

(* C3 as stated: every successful statistics response has completedTasks   *)
(* plus pendingTasks at most totalTasks, writes among its five count       *)
(* queries or not.                                                         *)
C3_SumAlways ==
    StatsAnswered => Counts.completedTasks + Counts.pendingTasks <= Counts.totalTasks

(* C3, amended: a successful statistics response has completedTasks plus   *)
(* pendingTasks at most totalTasks whenever no create, update or delete of *)
(* the principal's tasks took effect between the first and the last of its *)
(* five count queries.                                                     *)
C3_SumWithoutInterleavedWrite ==
    (StatsAnswered /\ ~last.dirty) =>
        Counts.completedTasks + Counts.pendingTasks <= Counts.totalTasks

(* A response over one task, Completed by an update, every write having   *)
(* landed before its first count query.                                    *)
C3_Witness ==
    /\ StatsAnswered /\ ~last.dirty
    /\ Counts.completedTasks = 1 /\ Counts.pendingTasks = 0 /\ Counts.totalTasks = 1

(* ------------------------- statistics: failure ------------------------ *)

StatsResponds == stats.responded = 0 /\ stats'.responded # 0

FailureStep ==
    /\ StatsResponds =>
          /\ last'.route = "STATS" /\ last'.status = stats'.responded
          /\ last'.status = 500 =>
                /\ last'.res.counts = Null
                /\ \E n \in QueryNames : stats'.q[n].st = "failed"
          /\ last'.status = 200 =>
                /\ last'.res.counts # Null
                /\ \A n \in QueryNames : stats'.q[n].st = "ok"
          /\ last'.status \in {200, 500}
    /\ (stats.responded = 0 /\ \E n \in QueryNames : stats'.q[n].st = "failed") =>
          stats'.responded = 500
    /\ (stats.active /\ stats.responded # 0) =>
          /\ stats'.responded = stats.responded
          /\ last' = last \/ last'.route # "STATS"
    /\ \A n \in QueryNames :
          (stats.active /\ stats.q[n].st # "pending") => stats'.q[n].st = stats.q[n].st

(* C9: when any of the five count queries fails, whichever it is and       *)
(* whatever the others have done by then, the request is answered at once  *)
(* with one 500 carrying no counts and nothing more is sent for it; a 200  *)
(* is sent only once all five have succeeded; a query that has settled is  *)
(* not run again.                                                          *)
C9_FailsAsAWhole == [][FailureStep]_vars

(* A 500 sent for a failed query while others succeeded, before and after. *)
C9_Witness ==
    /\ last.route = "STATS" /\ last.status = 500 /\ last.res.counts = Null
    /\ stats.responded = 500 /\ ~stats.active
    /\ stats.q["highPriority"].st = "failed"
    /\ stats.q["total"].st = "ok" /\ stats.q["overdue"].st = "ok"

(* ------------------------- statistics: the counts --------------------- *)

Owned(P) == {r \in tasks : r.user_id = P}

(* The five counts the claim describes, over the tasks of P, the overdue   *)
(* one at instant t.                                                       *)
Described(P, t) ==
    [totalTasks |-> Cardinality(Owned(P)),
     completedTasks |-> Cardinality({r \in Owned(P) : r.status = "Completed"}),
     pendingTasks |-> Cardinality({r \in Owned(P) : r.status = "Pending"}),
     highPriorityTasks |-> Cardinality({r \in Owned(P) : r.priority = Some("High")}),
     overdueTasks |-> Cardinality({r \in Owned(P) :
                                     /\ r.status # "Completed"
                                     /\ \E d \in r.deadline : d < t})]

(* The instant the overdue query of the request being answered ran. *)
OverdueAt ==
    IF stats.q["overdue"].st = "pending" THEN now ELSE stats.q["overdue"].at

ScenarioCreated == Cardinality(tasks) = ScenarioTasks /\ nextTaskId = ScenarioTasks + 1

ScenarioCounts ==
    [totalTasks |-> ScenarioTasks, completedTasks |-> 1,
     pendingTasks |-> ScenarioTasks - 1, highPriorityTasks |-> 1, overdueTasks |-> 1]

(* C8 as stated: register, login, create the tasks (one asking for status  *)
(* Completed, one High with a past deadline), nothing else; the statistics *)
(* then read total 3, completed 1, pending 2, high priority 1, overdue 1.  *)
C8_ScenarioAsStated ==
    (StatsAnswered /\ ScenarioCreated /\ \A r \in tasks : r.updated_at = r.created_at)
        => Counts = ScenarioCounts

(* C8, amended: register, login, create the tasks (each is stored Pending, *)
(* whatever status the request carries), one High with a past deadline,    *)
(* then set one of the others Completed with a PUT; the statistics then    *)
(* read total 3, completed 1, pending 2, high priority 1, overdue 1.       *)
C8_ScenarioWithUpdate ==
    (/\ StatsAnswered /\ ScenarioCreated
     /\ Cardinality({r \in tasks : r.updated_at # r.created_at}) = 1
     /\ \A r \in tasks : r.updated_at # r.created_at =>
            r.status = "Completed" /\ r.priority # Some("High"))
        => Counts = ScenarioCounts

C8_Witness ==
    /\ StatsAnswered /\ ScenarioCreated
    /\ Counts = ScenarioCounts
    /\ \E r \in tasks : r.task_id = ScenarioTasks /\ r.status = "Completed"
                         /\ r.updated_at > r.created_at

(* ------------------------- the task filters --------------------------- *)

(* needle occurs in text, letter case aside. *)
Contains(text, needle) ==
    \E i \in 0..(Len(text) - Len(needle)) :
        SubSeq(Lower(text), i + 1, i + Len(needle)) = Lower(needle)

(* The row satisfies every filter the query supplies. *)
Satisfies(r, query) ==
    /\ TruthyStr(query.status) => r.status = Get(query.status)
    /\ TruthyStr(query.priority) => r.priority = query.priority
    /\ TruthySeq(query.search) =>
          \/ Contains(r.title, Get(query.search))
          \/ \E d \in r.description : Contains(d, Get(query.search))

(* C5: GET /tasks returns exactly the principal's tasks that satisfy every *)
(* supplied filter: status equal, priority equal, the search text a        *)
(* substring, letter case aside, of the title or of the description; a     *)
(* filter left out restricts nothing.                                      *)
C5_FiltersExactly ==
    (last.route = "GET" /\ last.status = 200) =>
        last.res.rows = {r \in tasks : /\ Some(r.user_id) = last.principal
                                       /\ Satisfies(r, last.req.query)}

====
